---- MODULE Spec2Model ----
(***************************************************************************)
(* Model of src/main.py: the slide summarizer.                             *)
(*                                                                         *)
(* main() opens the presentation, creates one asyncio task per slide       *)
(* (process_slide), awaits them all with asyncio.gather and then writes    *)
(* the collected explanations with print_to_file.  Each task calls         *)
(* get_response, which appends the slide's text to the module-level list   *)
(* `messages`, sends that list to the chat-completion service and is       *)
(* retried by backoff.on_exception(backoff.expo, RateLimitError).          *)
(*                                                                         *)
(* Strings are TLA+ strings.  Texts that the code inspects character by    *)
(* character (run texts, the presentation path) are sequences of           *)
(* one-character strings, turned into a string by Str.                     *)
(***************************************************************************)
EXTENDS Integers, Sequences, FiniteSets, TLC

(***************************************************************************)
(* Bounds of the model.                                                    *)
(***************************************************************************)
MaxSlides == 2       \* slides in a presentation (main specification)
MaxRateLimits == 2   \* rate-limit errors the remote raises in one run
MaxLiveRateLimits == 1   \* the same, in the runs of the fair specification
MaxThrottledTries == 3   \* rate-limit errors followed for a slide that gets
                         \* nothing else
MaxRuns == 2         \* runs in a paragraph (text extraction)
MaxShapes == 2       \* shapes on a slide (text extraction)
MaxPathLen == 5      \* characters in the presentation path (file name)

(***************************************************************************)
(* Sequences and strings.                                                  *)
(***************************************************************************)
SeqsUpTo(S, n) == UNION {[1..k -> S] : k \in 0..n}

RECURSIVE Str(_)
Str(cs) == IF cs = <<>> THEN "" ELSE Head(cs) \o Str(Tail(cs))

Last(s) == s[Len(s)]

\* str.split(sep) for a one-character separator: the pieces between the
\* separators, empty pieces included; always at least one piece.
RECURSIVE Split(_, _)
Split(cs, sep) ==
    IF \A k \in 1..Len(cs) : cs[k] # sep
    THEN <<cs>>
    ELSE LET k == CHOOSE j \in 1..Len(cs) :
                      cs[j] = sep /\ \A h \in 1..(j - 1) : cs[h] # sep
         IN  <<SubSeq(cs, 1, k - 1)>> \o Split(SubSeq(cs, k + 1, Len(cs)), sep)

\* The characters str.strip() removes, those for which str.isspace() holds:
\* tab, line feed, vertical tab, form feed, carriage return, U+001C to
\* U+001F, space, U+0085, U+00A0 and U+1680.  The other such characters
\* (U+2000 to U+200A, U+2028, U+2029, U+202F, U+205F, U+3000) cannot be
\* written in a string of a module and are no characters of this model.
Whitespace ==
    {"\t", "\n", "", "\f", "\r",
     "", "", "", "",
     " ", "", " ", " "}

\* str.strip(): leading and trailing whitespace removed.
RECURSIVE LStrip(_)
LStrip(cs) == IF cs # <<>> /\ Head(cs) \in Whitespace THEN LStrip(Tail(cs)) ELSE cs

RECURSIVE RStrip(_)
RStrip(cs) ==
    IF cs # <<>> /\ Last(cs) \in Whitespace
    THEN RStrip(SubSeq(cs, 1, Len(cs) - 1))
    ELSE cs

\* Variant of Strip: the text is left as it is.
StripKeepsText(cs) == cs

Strip(cs) == RStrip(LStrip(cs))

\* sep.join(parts) for a list of strings.
RECURSIVE Join(_, _)
Join(sep, parts) ==
    IF parts = <<>> THEN ""
    ELSE IF Len(parts) = 1 THEN Head(parts)
    ELSE Head(parts) \o sep \o Join(sep, Tail(parts))

(***************************************************************************)
(* process_slide_text: the text of a slide.                                *)
(* A slide is [shapes: sequence of shapes]; a shape with a text frame is   *)
(* [has_text_frame |-> TRUE, text_frame |-> sequence of paragraphs], one   *)
(* without is [has_text_frame |-> FALSE]; a paragraph is its sequence of   *)
(* runs and a run is its text.                                             *)
(***************************************************************************)
ParagraphTexts(paragraph) ==
    [k \in 1..Len(paragraph) |-> Str(Strip(paragraph[k]))]

RECURSIVE FrameTexts(_)
FrameTexts(paragraphs) ==
    IF paragraphs = <<>> THEN <<>>
    ELSE ParagraphTexts(Head(paragraphs)) \o FrameTexts(Tail(paragraphs))

RECURSIVE ShapesTexts(_)
ShapesTexts(shapes) ==
    IF shapes = <<>> THEN <<>>
    ELSE (IF ~Head(shapes).has_text_frame
          THEN <<>>
          ELSE FrameTexts(Head(shapes).text_frame))
         \o ShapesTexts(Tail(shapes))

process_slide_text(slide) == Join(" ", ShapesTexts(slide.shapes))

(***************************************************************************)
(* print_to_file: the name of the output file and its lines.               *)
(***************************************************************************)
StemOf(base) == Head(Split(base, "."))

output_file_of(path) == Str(StemOf(Last(Split(path, "/")))) \o ".json"

\* The decimal numeral of a small natural number, as str() prints it.
Digit(d) == <<"0", "1", "2", "3", "4", "5", "6", "7", "8", "9">>[d + 1]

RECURSIVE Numeral(_)
Numeral(n) == IF n < 10 THEN Digit(n) ELSE Numeral(n \div 10) \o Digit(n % 10)

FileLine(i, explanation) ==
    "chat GPT answer " \o Numeral(i) \o " " \o explanation \o " \n\n"

FileLines(expl) == [i \in 1..Len(expl) |-> FileLine(i, expl[i])]

(***************************************************************************)
(* Inputs.                                                                 *)
(***************************************************************************)
NoFrameShape == [has_text_frame |-> FALSE]

FrameShape(paragraphs) == [has_text_frame |-> TRUE, text_frame |-> paragraphs]

\* Run texts: plain, padded with whitespace on both sides (a space, a line
\* feed), whitespace only (a tab).
RunTexts == {<<"a">>, <<" ", "b", "\n">>, <<"\t">>}

Paragraphs == SeqsUpTo(RunTexts, MaxRuns)

\* Text frames: no paragraph, one paragraph, or two one-run paragraphs.
TextFrames ==
    {<<>>} \cup {<<p>> : p \in Paragraphs}
           \cup {<<<<r>>, <<s>>>> : r \in RunTexts, s \in RunTexts}

Shapes == {NoFrameShape} \cup {FrameShape(f) : f \in TextFrames}

Slides == {[shapes |-> sh] : sh \in SeqsUpTo(Shapes, MaxShapes)}

\* Two slides: one with a shape without text frame, texts "a b" and "b".
SlideA ==
    [shapes |-> <<NoFrameShape, FrameShape(<<<<<<"a">>, <<"\t", "b", "\n">>>>>>)>>]

SlideB == [shapes |-> <<FrameShape(<<<<<<" ", "b", " ">>>>>>)>>]

\* The presentations of the main specification: 0 to MaxSlides slides,
\* SlideA and SlideB in turn.
Deck(n) == [i \in 1..n |-> IF i % 2 = 1 THEN SlideA ELSE SlideB]

Decks == {Deck(n) : n \in 0..MaxSlides}

DemoPath == <<"d", "/", "a", ".", "p">>

PathChars == {"/", ".", "a", "b"}

Paths == SeqsUpTo(PathChars, MaxPathLen)

\* What the chat-completion service can answer, and the messages of the
\* exceptions that are not rate-limit errors.
Replies == {"r1", "r2"}

ErrorMessages == {"timeout"}

RateLimitMessage == "rate limit"

(***************************************************************************)
(* State.                                                                  *)
(***************************************************************************)
VARIABLES
    presentation_path,  \* the command-line argument, a sequence of characters
    openable,           \* whether Presentation(presentation_path) succeeds
    slides,             \* prs.slides of the file at presentation_path
    quota,              \* rate-limit errors the service raises at most
    throttled,          \* the slides whose every call the service answers
                        \* with a rate-limit error
    mainpc,             \* where main() is
    tasks,              \* per slide: the state of its process_slide task
    messages,           \* the module-level conversation list
    explanations,       \* the list every task appends to
    tries,              \* per slide: invocations of get_response's body
    limited,            \* per slide: rate-limit errors its calls have raised
    waits,              \* per slide: the values backoff.expo has yielded
    delays,             \* per slide: the seconds slept before each retry
    sent,               \* per slide: the messages of its latest request
    outcome,            \* per slide: <<>>, or <<the string its task appended>>
    outfile             \* the files written: <<>> or one [name, lines]

vars == <<presentation_path, openable, slides, quota, throttled, mainpc, tasks, messages,
          explanations, tries, limited, waits, delays, sent, outcome,
          outfile>>

\* What a run is given: main never assigns these.
inputs == <<presentation_path, openable, slides, quota, throttled>>

Units == 1..Len(tasks)

SystemMessage ==
    [role |-> "system",
     content |-> "Please summarize the slides and provide additional information."]

UserMessage(text) == [role |-> "user", content |-> text]

NoOutcome == <<>>

InitRun(path, deck, limit, always) ==
    /\ presentation_path = path
    /\ openable \in BOOLEAN
    /\ slides = deck
    /\ quota = limit
    /\ throttled = always
    /\ mainpc = "start"
    /\ tasks = <<>>
    /\ messages = <<SystemMessage>>
    /\ explanations = <<>>
    /\ tries = <<>>
    /\ limited = <<>>
    /\ waits = <<>>
    /\ delays = <<>>
    /\ sent = <<>>
    /\ outcome = <<>>
    /\ outfile = <<>>

\* A run in which the service throttles no slide for ever.
InitWith(path, deck, limit) == InitRun(path, deck, limit, {})

Init == \E deck \in Decks : InitWith(DemoPath, deck, MaxRateLimits)

(***************************************************************************)
(* backoff.on_exception(backoff.expo, RateLimitError), as both decorators  *)
(* use it: no max_tries, no max_time, no giveup, the default jitter.       *)
(***************************************************************************)
\* Variant of Expo: a constant wait, as backoff.constant yields.
ExpoConstant(n) == 1

\* backoff.expo with its defaults (base 2, factor 1): the n-th value
\* yielded, n = 0, 1, ...

Expo(n) == 2 ^ n

\* backoff.full_jitter, the default jitter: a uniform draw from [0, value];
\* the model draws whole seconds.
Jitter(value) == 0..value

\* Variant of GivesUp: two retries only (max_tries = 3).
GivesUpAfterThirdTry(t) == t >= 3

\* Variant of GivesUp: one retry only (max_tries = 2).
GivesUpAfterSecondTry(t) == t >= 2

\* Variant of GivesUp: no retry at all (max_tries = 1).
GivesUpAfterFirstTry(t) == t >= 1

\* Whether the decorator stops retrying after `t` tries and lets the
\* rate-limit error out: never, as max_tries and max_time are None.

GivesUp(t) == FALSE

\* Variant of Catches: the handler is missing.
CatchesNothing(message) == FALSE

\* `except Exception` in process_slide: whether it catches the exception.

Catches(message) == TRUE

ErrorPrefix == "Error processing slide: "

\* Variant of ErrorString: the bare message.
ErrorStringNoPrefix(message) == message

\* f"Error processing slide: {str(e)}"

ErrorString(message) == ErrorPrefix \o message

Sum(f) ==
    LET RECURSIVE Add(_)
        Add(k) == IF k = 0 THEN 0 ELSE f[k] + Add(k - 1)
    IN  Add(Len(f))

\* Rate-limit errors raised so far in this run, those of the slides that
\* get nothing else left aside.
RateLimitsSoFar ==
    Sum([k \in 1..Len(limited) |-> IF k \in throttled THEN 0 ELSE limited[k]])

\* Variant of OpenFails: a presentation that cannot be opened is taken for
\* one without slides.
OpenFailsAsEmptyDeck ==
    /\ mainpc = "start"
    /\ ~openable
    /\ mainpc' = "returned"
    /\ UNCHANGED <<inputs, tasks, messages, explanations, tries, limited,
                   waits, delays, sent, outcome, outfile>>

(***************************************************************************)
(* main and process_presentation.                                          *)
(***************************************************************************)
\* Presentation(presentation_path) raises: main ends with the exception.
OpenFails ==
    /\ mainpc = "start"
    /\ ~openable
    /\ mainpc' = "failed"
    /\ UNCHANGED <<inputs, tasks, messages, explanations, tries, limited,
                   waits, delays, sent, outcome, outfile>>

\* Lines 16-20: the file opens and one task per slide is created; none has
\* run yet when process_presentation reaches the await of gather.
CreateTasks ==
    /\ mainpc = "start"
    /\ openable
    /\ mainpc' = "gathering"
    /\ tasks' = [i \in 1..Len(slides) |-> "PENDING"]
    /\ tries' = [i \in 1..Len(slides) |-> 0]
    /\ limited' = [i \in 1..Len(slides) |-> 0]
    /\ waits' = [i \in 1..Len(slides) |-> <<>>]
    /\ delays' = [i \in 1..Len(slides) |-> <<>>]
    /\ sent' = [i \in 1..Len(slides) |-> <<>>]
    /\ outcome' = [i \in 1..Len(slides) |-> NoOutcome]
    /\ UNCHANGED <<inputs, messages, explanations, outfile>>

\* await asyncio.gather(*tasks): raises the first exception a task ended
\* with, else returns once every task is done; then `return explanations`.
Gather ==
    /\ mainpc = "gathering"
    /\ IF \E i \in Units : tasks[i] = "FAILED"
       THEN mainpc' = "failed"
       ELSE /\ \A i \in Units : tasks[i] = "DONE"
            /\ mainpc' = "returned"
    /\ UNCHANGED <<inputs, tasks, messages, explanations, tries, limited,
                   waits, delays, sent, outcome, outfile>>

\* print_to_file(explanations).
PrintToFile ==
    /\ mainpc = "returned"
    /\ outfile' = <<[name |-> output_file_of(presentation_path),
                     lines |-> FileLines(explanations)]>>
    /\ mainpc' = "written"
    /\ UNCHANGED <<inputs, tasks, messages, explanations, tries, limited,
                   waits, delays, sent, outcome>>

(***************************************************************************)
(* process_slide and get_response: the task of slide i.                    *)
(***************************************************************************)
\* Variant of Invoke: the request is built from a copy of the shared list,
\* which is left as it was.
InvokeWithCopy(i) ==
    /\ sent' = [sent EXCEPT ![i] =
                   Append(messages, UserMessage(process_slide_text(slides[i])))]
    /\ tries' = [tries EXCEPT ![i] = @ + 1]
    /\ tasks' = [tasks EXCEPT ![i] = "IN_FLIGHT"]
    /\ UNCHANGED <<inputs, mainpc, messages, explanations, limited, waits,
                   delays, outcome, outfile>>

\* The body of get_response up to its await: the slide's text is appended
\* to the shared list and the shared list is what the request carries.
Invoke(i) ==
    /\ messages' = Append(messages, UserMessage(process_slide_text(slides[i])))
    /\ sent' = [sent EXCEPT ![i] = messages']
    /\ tries' = [tries EXCEPT ![i] = @ + 1]
    /\ tasks' = [tasks EXCEPT ![i] = "IN_FLIGHT"]
    /\ UNCHANGED <<inputs, mainpc, explanations, limited, waits, delays,
                   outcome, outfile>>

\* Variant of Finish: the result is stored at the slide's own place, so the
\* list holds the results so far in slide order.
FinishInSlideOrder(i, text) ==
    LET out == [outcome EXCEPT ![i] = <<text>>]
        RECURSIVE Upto(_)
        Upto(k) == IF k = 0 THEN <<>> ELSE Upto(k - 1) \o out[k]
    IN  /\ explanations' = Upto(Len(out))
        /\ outcome' = out
        /\ tasks' = [tasks EXCEPT ![i] = "DONE"]

\* explanations.append(text): the task is done.
Finish(i, text) ==
    /\ explanations' = Append(explanations, text)
    /\ outcome' = [outcome EXCEPT ![i] = <<text>>]
    /\ tasks' = [tasks EXCEPT ![i] = "DONE"]

\* Variant of Raise: the handler records the error and the decorator of
\* process_slide runs the body again.
RaiseRecordsAndRetries(i, message) ==
    /\ explanations' = Append(explanations, ErrorString(message))
    /\ outcome' = [outcome EXCEPT ![i] = <<ErrorString(message)>>]
    /\ tasks' = [tasks EXCEPT ![i] = "RETRYING"]

\* Variant of Raise: the error is retried like a rate-limit error.
RaiseRetries(i, message) ==
    /\ tasks' = [tasks EXCEPT ![i] = "RETRYING"]
    /\ UNCHANGED <<explanations, outcome>>

\* Variant of Raise: the handler records nothing.
RaiseSwallowed(i, message) ==
    /\ tasks' = [tasks EXCEPT ![i] = "DONE"]
    /\ UNCHANGED <<explanations, outcome>>

\* Variant of Raise: the error also ends the tasks still running.
RaiseCancelsSiblings(i, message) ==
    /\ explanations' = Append(explanations, ErrorString(message))
    /\ outcome' = [outcome EXCEPT ![i] = <<ErrorString(message)>>]
    /\ tasks' = [j \in Units |->
                    IF j = i \/ tasks[j] = "DONE" THEN "DONE" ELSE "FAILED"]

\* The exception reaches process_slide's try: caught and turned into a
\* string, or else the task ends with it.
Raise(i, message) ==
    IF Catches(message)
    THEN Finish(i, ErrorString(message))
    ELSE /\ tasks' = [tasks EXCEPT ![i] = "FAILED"]
         /\ UNCHANGED <<explanations, outcome>>

\* Variant of Start: a sleeping task keeps the event loop to itself.
StartBlockedBySleep(i) ==
    /\ mainpc = "gathering"
    /\ tasks[i] = "PENDING"
    /\ \A j \in 1..(i - 1) : tasks[j] # "PENDING"
    /\ \A j \in Units : tasks[j] # "RETRYING"
    /\ Invoke(i)

\* The event loop runs the tasks in the order of their creation.
Start(i) ==
    /\ mainpc = "gathering"
    /\ tasks[i] = "PENDING"
    /\ \A j \in 1..(i - 1) : tasks[j] # "PENDING"
    /\ Invoke(i)

\* The service answers: the reply is returned and appended.
Reply(i, r) ==
    /\ tasks[i] = "IN_FLIGHT"
    /\ i \notin throttled
    /\ Finish(i, r)
    /\ UNCHANGED <<inputs, mainpc, messages, tries, limited, waits, delays,
                   sent, outfile>>

\* The call raises an exception that is not a rate-limit error.
Error(i, message) ==
    /\ tasks[i] = "IN_FLIGHT"
    /\ i \notin throttled
    /\ Raise(i, message)
    /\ UNCHANGED <<inputs, mainpc, messages, tries, limited, waits, delays,
                   sent, outfile>>

\* The call raises RateLimitError: get_response's decorator takes the next
\* value of backoff.expo, applies the jitter and sleeps.
RateLimit(i) ==
    /\ tasks[i] = "IN_FLIGHT"
    /\ IF i \in throttled
       THEN limited[i] < MaxThrottledTries
       ELSE RateLimitsSoFar < quota
    /\ limited' = [limited EXCEPT ![i] = @ + 1]
    /\ IF GivesUp(tries[i])
       THEN /\ Raise(i, RateLimitMessage)
            /\ UNCHANGED <<waits, delays>>
       ELSE LET value == Expo(Len(waits[i]))
            IN  /\ waits' = [waits EXCEPT ![i] = Append(@, value)]
                /\ \E seconds \in Jitter(value) :
                       delays' = [delays EXCEPT ![i] = Append(@, seconds)]
                /\ tasks' = [tasks EXCEPT ![i] = "RETRYING"]
                /\ UNCHANGED <<explanations, outcome>>
    /\ UNCHANGED <<inputs, mainpc, messages, tries, sent, outfile>>

\* The sleep ends: the decorator calls get_response's body again.
Retry(i) ==
    /\ tasks[i] = "RETRYING"
    /\ Invoke(i)

Next ==
    \/ OpenFails
    \/ CreateTasks
    \/ Gather
    \/ PrintToFile
    \/ \E i \in Units : Start(i)
    \/ \E i \in Units : \E r \in Replies : Reply(i, r)
    \/ \E i \in Units : \E m \in ErrorMessages : Error(i, m)
    \/ \E i \in Units : RateLimit(i)
    \/ \E i \in Units : Retry(i)

Spec == Init /\ [][Next]_vars

\* Fair scheduling: the run does not stop while a step can be taken (the
\* event loop runs a task that is ready, a sleep ends, a request is
\* answered).
InitLive == \E deck \in Decks : InitWith(DemoPath, deck, MaxLiveRateLimits)

LiveSpec == InitLive /\ [][Next]_vars /\ WF_vars(Next)

\* Scheduling that is fair to everything but the end of a sleep: a task
\* in backoff may stay there for ever.
NextButRetry ==
    \/ OpenFails
    \/ CreateTasks
    \/ Gather
    \/ PrintToFile
    \/ \E i \in Units : Start(i)
    \/ \E i \in Units : \E r \in Replies : Reply(i, r)
    \/ \E i \in Units : \E m \in ErrorMessages : Error(i, m)
    \/ \E i \in Units : RateLimit(i)

BackoffSpec == InitLive /\ [][Next]_vars /\ WF_vars(NextButRetry)

\* A service that answers every call for at most one of the slides with a
\* rate-limit error, and rate-limits no call for the others.
InitThrottled ==
    \E deck \in Decks : \E always \in SUBSET (1..Len(deck)) :
        /\ Cardinality(always) <= 1
        /\ InitRun(DemoPath, deck, 0, always)

ThrottledSpec == InitThrottled /\ [][Next]_vars

\* The file name, for every path: a presentation of one slide.  A path
\* that ends in "/", "." or ".." names a directory, which does not open.
NamesDirectory(path) == Last(Split(path, "/")) \in {<<>>, <<".">>, <<".", ".">>}

InitFile ==
    \E path \in Paths :
        /\ InitWith(path, <<SlideA>>, MaxRateLimits)
        /\ NamesDirectory(path) => ~openable

SpecFile == InitFile /\ [][Next]_vars

\* The text of a slide, for every slide: the run up to its request.
InitText == \E slide \in Slides : InitWith(DemoPath, <<slide>>, MaxRateLimits)

NextText ==
    \/ OpenFails
    \/ CreateTasks
    \/ \E i \in Units : Start(i)

SpecText == InitText /\ [][NextText]_vars

(***************************************************************************)
(* Properties.                                                             *)
(***************************************************************************)
Returned == mainpc \in {"returned", "written"}

ErrorStrings == {"Error processing slide: " \o m : m \in ErrorMessages}

\* C1: whenever process_presentation has returned, the list it returned
\* has exactly one entry per slide, whatever the slides' calls did.
C1_OneResultPerSlide == Returned => Len(explanations) = Len(slides)

C1_Witness ==
    /\ mainpc = "returned"
    /\ Len(slides) = MaxSlides
    /\ \E i \in Units : limited[i] > 0
    /\ \E i \in Units : \E e \in ErrorStrings : outcome[i] = <<e>>

\* The case N = 0 of C1: a presentation without slides returns the empty list.
C1_WitnessEmpty == mainpc = "returned" /\ slides = <<>> /\ explanations = <<>>

\* C2: the returned results are in slide order: entry i of the list is the
\* string that the task of slide i recorded.
C2_ResultsInSlideOrder ==
    Returned => \A i \in 1..Len(explanations) :
                    i \in Units /\ outcome[i] = <<explanations[i]>>

\* C3: every request carries the system message followed by exactly one
\* user message, the one with the text of the request's own slide.
C3_PayloadIsSeedAndOwnText ==
    \A i \in Units :
        tries[i] > 0 =>
            sent[i] = <<SystemMessage, UserMessage(process_slide_text(slides[i]))>>

\* C4: when the call of slide i raises an exception that is not a
\* rate-limit error, with message m, that step appends exactly
\* "Error processing slide: " followed by m and ends the task normally.
C4_ErrorBecomesResult ==
    [][\A i \in Units : \A m \in ErrorMessages :
          Error(i, m) =>
              /\ explanations' = Append(explanations, "Error processing slide: " \o m)
              /\ tasks'[i] = "DONE"
              /\ mainpc' = mainpc]_vars

C4_Witness ==
    \E i \in Units :
        /\ tasks[i] = "DONE"
        /\ explanations # <<>>
        /\ Last(explanations) = "Error processing slide: timeout"
        /\ outcome[i] = <<Last(explanations)>>

\* C5: a failing task neither fails the run nor touches its siblings: no
\* task ever ends with an exception, main fails only before any task
\* exists, a step of one task leaves every other task where it was, and
\* when gather has returned every task is done with a result of its own.
C5_FailuresStayLocal ==
    /\ [](\A i \in Units : tasks[i] # "FAILED")
    /\ [](mainpc = "failed" => tasks = <<>>)
    /\ [](Returned => \A i \in Units : tasks[i] = "DONE" /\ outcome[i] # NoOutcome)
    /\ [][\A i \in Units : \A m \in ErrorMessages :
            Error(i, m) => \A j \in Units \ {i} :
                              /\ tasks'[j] = tasks[j]
                              /\ outcome'[j] = outcome[j]]_vars

C5_Witness ==
    /\ mainpc = "returned"
    /\ \E i \in Units : \E e \in ErrorStrings : outcome[i] = <<e>>
    /\ \E j \in Units : \E r \in Replies : outcome[j] = <<r>>

\* C6: a task whose call raised K rate-limit errors and then succeeded has
\* made exactly K retries, one sleep before each, and K + 1 calls, and what
\* it recorded is the reply to the last call.
C6_RetriesOncePerRateLimit ==
    [][\A i \in Units :
          /\ (tasks'[i] = "DONE" =>
                 /\ tries'[i] = limited'[i] + 1
                 /\ Len(delays'[i]) = limited'[i])
          /\ \A r \in Replies :
                 Reply(i, r) =>
                     /\ outcome'[i] = <<r>>
                     /\ explanations' = Append(explanations, r)
                     /\ tries'[i] = limited[i] + 1]_vars

C6_Witness ==
    \E i \in Units :
        /\ tasks[i] = "DONE"
        /\ limited[i] = MaxRateLimits
        /\ tries[i] = MaxRateLimits + 1
        /\ \E r \in Replies : outcome[i] = <<r>>

\* C7 as stated: within one task the sleeps before successive retries are
\* strictly increasing.
C7_DelaysStrictlyIncrease ==
    \A i \in Units :
        \A k \in 1..(Len(delays[i]) - 1) : delays[i][k + 1] > delays[i][k]

\* C7 as amended: within one task the values that the exponential backoff
\* yields (1, 2, 4, ...: each twice the one before) are strictly
\* increasing, and each sleep is at least 0 and at most the value yielded
\* for it.
C7_WaitsIncreaseDelaysWithin ==
    \A i \in Units :
        /\ Len(waits[i]) = Len(delays[i])
        /\ \A k \in 1..Len(waits[i]) :
               /\ delays[i][k] >= 0
               /\ delays[i][k] <= waits[i][k]
        /\ \A k \in 1..(Len(waits[i]) - 1) :
               /\ waits[i][k + 1] > waits[i][k]
               /\ waits[i][k + 1] = waits[i][k] + waits[i][k]

C7_Witness ==
    \E i \in Units :
        /\ Len(delays[i]) >= 2
        /\ delays[i][2] <= delays[i][1]
        /\ waits[i][2] > waits[i][1]

\* C8: the remote raising only finitely many rate-limit errors, under fair
\* scheduling, once the tasks are created every task ends with a string
\* result and process_presentation returns.
C8_EventuallyReturns ==
    (mainpc = "gathering") ~>
        (/\ mainpc = "returned"
         /\ \A i \in Units :
                /\ tasks[i] = "DONE"
                /\ \E t \in Replies \cup ErrorStrings : outcome[i] = <<t>>)

C8_Witness ==
    /\ mainpc = "returned"
    /\ Len(slides) = MaxSlides
    /\ RateLimitsSoFar = MaxLiveRateLimits
    /\ \E i \in Units : \E e \in ErrorStrings : outcome[i] = <<e>>
    /\ \A i \in Units : tasks[i] = "DONE"

\* The part of a path after its last "/", and a file name without its
\* extension: without its last dot and what follows it.
Basename(path) ==
    LET cuts == {k \in 1..Len(path) : path[k] = "/"}
        from == IF cuts = {} THEN 1
                ELSE (CHOOSE k \in cuts : \A h \in cuts : h <= k) + 1
    IN  SubSeq(path, from, Len(path))

ExtensionRemoved(base) ==
    LET dots == {k \in 1..Len(base) : base[k] = "."}
    IN  IF dots = {} THEN base
        ELSE SubSeq(base, 1, (CHOOSE k \in dots : \A h \in dots : h <= k) - 1)

\* C9: the file written is named after the basename of the path with its
\* extension removed, followed by ".json".
C9_NameIsBasenameWithoutExtension ==
    outfile # <<>> =>
        outfile[1].name =
            Str(ExtensionRemoved(Basename(presentation_path))) \o ".json"

\* The runs of a slide, in shape, paragraph and run order, of the shapes
\* that have a text frame.
RECURSIVE Flatten(_)
Flatten(ss) == IF ss = <<>> THEN <<>> ELSE Head(ss) \o Flatten(Tail(ss))

HasFrame(shape) == shape.has_text_frame

RunsOf(slide) ==
    LET framed == SelectSeq(slide.shapes, HasFrame)
    IN  Flatten(Flatten([k \in 1..Len(framed) |-> framed[k].text_frame]))

\* cs without its leading and its trailing whitespace: the piece of cs
\* that has only whitespace before and after it and none at its two ends.
StrippedOf(cs) ==
    CHOOSE t \in {SubSeq(cs, a, b) : a \in 1..(Len(cs) + 1), b \in 0..Len(cs)} :
        /\ \E a \in 1..(Len(cs) + 1) : \E b \in 0..Len(cs) :
               /\ t = SubSeq(cs, a, b)
               /\ \A k \in 1..Len(cs) : (k < a \/ k > b) => cs[k] \in Whitespace
        /\ t # <<>> => (Head(t) \notin Whitespace /\ Last(t) \notin Whitespace)

\* The pieces with one space between neighbours, as a string.
Spaced(pieces) ==
    Str(Flatten([k \in 1..(2 * Len(pieces) - 1) |->
                    IF k % 2 = 1 THEN pieces[(k + 1) \div 2] ELSE <<" ">>]))

\* The text that the latest request of slide i carries for it.
TextSent(i) == Last(sent[i]).content

\* C10 as stated: the text extracted from a slide is its runs' texts,
\* unchanged, with single spaces between them.
C10_TextIsRunsSpaced ==
    \A i \in Units : tries[i] > 0 => TextSent(i) = Spaced(RunsOf(slides[i]))

\* C10 as amended: the text extracted from a slide is its runs' texts, each
\* without its leading and trailing whitespace, in shape, paragraph and run
\* order with single spaces between them; shapes without a text frame add
\* nothing, and a slide without runs gives the empty string.
C10_TextIsStrippedRunsSpaced ==
    \A i \in Units :
        tries[i] > 0 =>
            LET runs == RunsOf(slides[i])
            IN  /\ TextSent(i) =
                       Spaced([k \in 1..Len(runs) |-> StrippedOf(runs[k])])
                /\ runs = <<>> => TextSent(i) = ""

C10_Witness ==
    \E i \in Units :
        /\ tries[i] > 0
        /\ \E k \in 1..Len(slides[i].shapes) : ~slides[i].shapes[k].has_text_frame
        /\ Len(RunsOf(slides[i])) >= 2
        /\ RunsOf(slides[i])[1] = <<" ", "b", "\n">>
        /\ TextSent(i) = "b a"

\* C11: the task of a slide moves only PENDING -> IN_FLIGHT, IN_FLIGHT ->
\* RETRYING (and only as its call raises a rate-limit error), RETRYING ->
\* IN_FLIGHT and IN_FLIGHT -> DONE; an error that is not a rate-limit error
\* takes it from IN_FLIGHT to DONE with the error string; once DONE it
\* stays DONE, calls no more and records no more.
TaskMoves ==
    {<<"PENDING", "IN_FLIGHT">>, <<"IN_FLIGHT", "RETRYING">>,
     <<"RETRYING", "IN_FLIGHT">>, <<"IN_FLIGHT", "DONE">>}

C11_TaskStateMachine ==
    [][\A i \in Units :
          /\ tasks'[i] # tasks[i] => <<tasks[i], tasks'[i]>> \in TaskMoves
          /\ (tasks[i] # "RETRYING" /\ tasks'[i] = "RETRYING") =>
                 /\ tasks[i] = "IN_FLIGHT"
                 /\ limited'[i] = limited[i] + 1
                 /\ tries'[i] = tries[i]
          /\ tries'[i] # tries[i] =>
                 /\ tries'[i] = tries[i] + 1
                 /\ tasks[i] \in {"PENDING", "RETRYING"}
                 /\ tasks'[i] = "IN_FLIGHT"
          /\ \A m \in ErrorMessages :
                 Error(i, m) =>
                     /\ tasks'[i] = "DONE"
                     /\ outcome'[i] = <<"Error processing slide: " \o m>>
          /\ tasks[i] = "DONE" =>
                 /\ tasks'[i] = "DONE"
                 /\ tries'[i] = tries[i]
                 /\ sent'[i] = sent[i]
                 /\ outcome'[i] = outcome[i]]_vars

C11_Witness ==
    \E i \in Units :
        /\ tasks[i] = "DONE"
        /\ limited[i] >= 1
        /\ tries[i] = limited[i] + 1
        /\ \E e \in ErrorStrings : outcome[i] = <<e>>
        /\ \E j \in Units : tasks[j] = "RETRYING"

\* C12: a rate-limit error never becomes a result: the step in which a call
\* raises it appends nothing and sends the task to sleep before another
\* call for the same slide, and no entry of the list is the error string
\* of a rate-limit error.
C12_RateLimitNeverAResult ==
    /\ [](\A k \in 1..Len(explanations) :
             explanations[k] # "Error processing slide: " \o RateLimitMessage)
    /\ [][\A i \in Units :
            limited'[i] # limited[i] =>
                /\ explanations' = explanations
                /\ outcome'[i] = <<>>
                /\ tasks[i] = "IN_FLIGHT"
                /\ tasks'[i] = "RETRYING"]_vars

C12_Witness ==
    /\ Returned
    /\ \E i \in Units : limited[i] = MaxRateLimits
    /\ \A i \in Units : \E t \in Replies \cup ErrorStrings : outcome[i] = <<t>>

\* C13: a task in backoff holds up nobody else: even if no sleep ever
\* ends, from a state where a task is in backoff every sibling that is
\* waiting to start or for its answer gets to DONE (or to a backoff of its
\* own).
C13_BackoffBlocksOnlyItsTask ==
    (\E i \in Units : tasks[i] = "RETRYING")
        ~> (\A j \in Units : tasks[j] \in {"DONE", "RETRYING"})

C13_Witness ==
    \E i \in Units :
        /\ mainpc = "gathering"
        /\ Len(slides) = MaxSlides
        /\ tasks[i] = "RETRYING"
        /\ \A j \in Units \ {i} : tasks[j] = "DONE" /\ outcome[j] # NoOutcome

\* C14: retry has no bound: a task whose every call is answered with a
\* rate-limit error has called again after each of them and is never DONE,
\* process_presentation does not return and no file is written, also when
\* every other task is done.
C14_ThrottledNeverDone ==
    throttled # {} =>
        /\ \A i \in throttled \cap Units :
               /\ tasks[i] \in {"PENDING", "IN_FLIGHT", "RETRYING"}
               /\ tasks[i] = "IN_FLIGHT" => tries[i] = limited[i] + 1
               /\ tasks[i] = "RETRYING" => tries[i] = limited[i]
               /\ outcome[i] = NoOutcome
        /\ mainpc \in {"start", "failed", "gathering"}
        /\ outfile = <<>>

C14_Witness ==
    \E i \in throttled :
        /\ mainpc = "gathering"
        /\ Len(slides) = MaxSlides
        /\ limited[i] = MaxThrottledTries
        /\ tries[i] = MaxThrottledTries
        /\ \A j \in Units \ {i} : tasks[j] = "DONE"

\* C15: when the presentation cannot be opened the run fails before any
\* slide is processed: no task is created, no request is sent, the shared
\* message list is the seed alone, there is no result and no file.
C15_OpenFailureBeforeAnySlide ==
    ~openable =>
        /\ mainpc \in {"start", "failed"}
        /\ tasks = <<>>
        /\ tries = <<>>
        /\ sent = <<>>
        /\ messages = <<SystemMessage>>
        /\ explanations = <<>>
        /\ outfile = <<>>

C15_Witness == ~openable /\ mainpc = "failed" /\ Len(slides) = MaxSlides

\* C16: a slide contributes at most one entry to the results, and exactly
\* one once its task is DONE: there are as many entries as DONE tasks, a
\* task has its result exactly when it is DONE, a step adds at most one
\* entry and only as one task becomes DONE, and a result once recorded is
\* never replaced.
C16_OneEntryPerDoneSlide ==
    /\ [](/\ Len(explanations) =
                Cardinality({i \in Units : tasks[i] = "DONE"})
          /\ \A i \in Units :
                 tasks[i] = "DONE" <=> outcome[i] # NoOutcome)
    /\ [][/\ explanations' # explanations =>
               /\ Len(explanations') = Len(explanations) + 1
               /\ Cardinality({i \in Units :
                      tasks[i] # "DONE" /\ tasks'[i] = "DONE"}) = 1
          /\ \A i \in Units :
                 outcome[i] # NoOutcome => outcome'[i] = outcome[i]]_vars

C16_Witness ==
    /\ Returned
    /\ Len(explanations) = MaxSlides
    /\ \E i \in Units : limited[i] >= 1 /\ outcome[i] # NoOutcome
    /\ \E i \in Units : \E e \in ErrorStrings : outcome[i] = <<e>>

\* Entries of the shared list that are the user message of a given text.
Occurrences(text) ==
    Cardinality({k \in 1..Len(messages) : messages[k] = UserMessage(text)})

\* Calls made so far for the slides of a given text.
AttemptsFor(text) ==
    Sum([j \in 1..Len(tries) |->
            IF process_slide_text(slides[j]) = text THEN tries[j] ELSE 0])

\* C17: the shared message list grows by one entry per attempt and never
\* shrinks: its length is 1 + the attempts made so far, its first entry is
\* the system message, a slide's text is there once per attempt made for it
\* (1 + its rate-limit errors once the slide is done), and when all N slides
\* are done after R rate-limit errors the list has 1 + N + R entries.
C17_MessagesGrowPerAttempt ==
    /\ [](/\ Len(messages) = 1 + Sum(tries)
          /\ messages[1] = SystemMessage
          /\ \A k \in 2..Len(messages) : messages[k].role = "user"
          /\ \A i \in Units :
                 /\ Occurrences(process_slide_text(slides[i])) =
                        AttemptsFor(process_slide_text(slides[i]))
                 /\ tasks[i] = "DONE" => tries[i] = limited[i] + 1
          /\ Returned =>
                 Len(messages) = 1 + Len(slides) + Sum(limited))
    /\ [][\/ messages' = messages
          \/ \E i \in Units :
                 /\ tries'[i] = tries[i] + 1
                 /\ messages' = Append(messages,
                        UserMessage(process_slide_text(slides[i])))]_vars

C17_Witness ==
    /\ Returned
    /\ Len(slides) = MaxSlides
    /\ Sum(limited) = MaxRateLimits
    /\ Len(messages) = 1 + MaxSlides + MaxRateLimits
    /\ \E i \in Units :
           /\ limited[i] = MaxRateLimits
           /\ Occurrences(process_slide_text(slides[i])) = MaxRateLimits + 1

\* C18: the results are in completion order: the outcome of a task is put
\* at the end of the list in the step in which the task becomes DONE, so
\* its position is the number of tasks DONE by then; no other step changes
\* the list; and the file numbers each result by its position in the list.
C18_ResultsInCompletionOrder ==
    /\ [][/\ \A i \in Units :
                 (tasks[i] # "DONE" /\ tasks'[i] = "DONE") =>
                     /\ explanations' = Append(explanations, outcome'[i][1])
                     /\ Len(explanations') =
                            Cardinality({j \in Units : tasks'[j] = "DONE"})
          /\ (\A i \in Units : tasks[i] = "DONE" \/ tasks'[i] # "DONE") =>
                 explanations' = explanations]_vars
    /\ [](outfile # <<>> =>
             /\ Len(outfile[1].lines) = Len(explanations)
             /\ \A k \in 1..Len(explanations) :
                    outfile[1].lines[k] =
                        "chat GPT answer " \o Numeral(k) \o " "
                            \o explanations[k] \o " \n\n")

C18_Witness ==
    /\ mainpc = "written"
    /\ Len(slides) = MaxSlides
    /\ outcome[1] # outcome[MaxSlides]
    /\ explanations[1] = outcome[MaxSlides][1]
    /\ outfile[1].lines[1] = FileLine(1, outcome[MaxSlides][1])
    /\ explanations[MaxSlides] = outcome[1][1]

====
